---- MODULE Spec2Model ----
(***************************************************************************)
(* Smart Canteen: the order lifecycle of the two order-taking programs of  *)
(* the repository.                                                         *)
(*                                                                         *)
(*   program = "api" : src/main.py, the FastAPI backend with tracking      *)
(*                     tokens and the queue-position query                 *)
(*   program = "web" : src/app.py, the Flask application                   *)
(*                                                                         *)
(* Each program owns one relational store with the tables menu_item,       *)
(* order and order_item.  A request handler runs as one transaction, so a  *)
(* handler is one action; the handlers themselves are operators from the   *)
(* committed store and the request to the response and the new store.      *)
(* SpecTxn takes the order handlers apart into the steps between their     *)
(* exchanges with the database, to let other requests run in between.      *)
(*                                                                         *)
(* Money is fixed point: an integer number of mills (1/1000 of the         *)
(* currency unit), so 5.99 is 5990.  The binary rounding noise of Python   *)
(* floats is outside the model; round(x, 2) is the rounding to cents.      *)
(***************************************************************************)
EXTENDS Integers, Sequences, FiniteSets, TLC

VARIABLES
    program,      \* which of the two programs this store belongs to
    menu_items,   \* table menu_item : id -> row
    orders,       \* table order     : sequence of rows, row i has id i
    order_items,  \* table order_item: sequence of rows
    resp,         \* the response of the last request
    txn           \* the order request in progress, step by step (SpecTxn)

vars == <<program, menu_items, orders, order_items, resp, txn>>

(***************************************************************************)
(* Bounds of the model.                                                    *)
(***************************************************************************)
MaxOrders == 2
MaxQueue == 3

(***************************************************************************)
(* Request inputs.                                                         *)
(***************************************************************************)
\* The menu item ids the requests name.
ItemIds == 1..2

\* Prices a staff request may send: 5.99 and a price with a third decimal.
Prices == {5990, 1253}

\* Order payloads: the list of (item id, quantity) lines of a request.  No
\* menu row ever has id 3.
Line(i, q) == [item_id |-> i, quantity |-> q]

Payloads ==
    { <<>>,
      <<Line(1, 2)>>,
      <<Line(1, 1), Line(2, 2)>>,
      <<Line(2, 2), Line(1, 1)>>,
      <<Line(1, 1), Line(3, 1)>> }

QueuePayloads == { <<Line(1, 1)>> }

\* What generate_token may return: a pool of 6-character tokens.
TokenPool == <<"A3F9K2", "ZZ81QP", "7HB0C4", "M2M2M2", "Q0Q0Q0">>

QueueTokens == {TokenPool[1], TokenPool[2], TokenPool[3]}

\* Minute of the hour at which a web order is placed.
Minutes == {5, 50}

\* The thirteen rows init_database inserts, of which those with an id in ItemIds are kept.
SampleItems ==
    << [name |-> "Veg Burger", category |-> "Burgers",
        price |-> 5990, available |-> TRUE, preparation_time |-> 10],
       [name |-> "Chicken Burger", category |-> "Burgers",
        price |-> 7990, available |-> TRUE, preparation_time |-> 15],
       [name |-> "Margherita Pizza", category |-> "Pizza",
        price |-> 9990, available |-> TRUE, preparation_time |-> 20],
       [name |-> "Pepperoni Pizza", category |-> "Pizza",
        price |-> 11990, available |-> TRUE, preparation_time |-> 20] >>

(***************************************************************************)
(* Helpers.                                                                *)
(***************************************************************************)
Max(S) == CHOOSE x \in S : \A y \in S : y <= x

RECURSIVE SumSeq(_)
SumSeq(s) == IF s = <<>> THEN 0 ELSE Head(s) + SumSeq(Tail(s))

RECURSIVE Reverse(_)
Reverse(s) == IF s = <<>> THEN <<>> ELSE Append(Reverse(Tail(s)), Head(s))

\* Python round(x, 2) on an amount in mills: to the nearest cent, a tie to
\* the even cent.
Round2(x) ==
    LET q == x \div 10
        r == x % 10
    IN  IF r < 5 THEN 10 * q
        ELSE IF r > 5 THEN 10 * (q + 1)
        ELSE IF q % 2 = 0 THEN 10 * q ELSE 10 * (q + 1)

Reply(op, code, detail) == [op |-> op, code |-> code, detail |-> detail]

\* The outcome of a handler: its response and the tables it leaves committed.
Result(r, m, o, oi) ==
    [resp |-> r, menu_items |-> m, orders |-> o, order_items |-> oi]

NoChange(r) == Result(r, menu_items, orders, order_items)

(***************************************************************************)
(* src/main.py: menu handlers.                                             *)
(***************************************************************************)
\* The id the store gives a new menu_item row.
NextItemId ==
    IF DOMAIN menu_items = {} THEN 1 ELSE Max(DOMAIN menu_items) + 1

create_menu_item(payload) ==
    Result(Reply("create_menu_item", 200, "ok"),
           menu_items @@ (NextItemId :> payload), orders, order_items)

\* setattr(item, k, v) for every field the payload sets.
set_fields(item, payload) ==
    [k \in DOMAIN item |-> IF k \in DOMAIN payload THEN payload[k] ELSE item[k]]

\* Mutation of update_menu_item: the order lines hold the menu price by
\* reference, so a price update reaches the lines already stored.
update_menu_item_mut(item_id, payload) ==
    IF item_id \notin DOMAIN menu_items
    THEN NoChange(Reply("update_menu_item", 404, "Menu item not found"))
    ELSE LET updated == set_fields(menu_items[item_id], payload)
         IN  Result(Reply("update_menu_item", 200, "ok"),
                    [menu_items EXCEPT ![item_id] = updated],
                    orders,
                    [k \in 1..Len(order_items) |->
                        IF order_items[k].item_id = item_id
                        THEN [order_items[k] EXCEPT
                                 !.price_at_purchase = updated.price]
                        ELSE order_items[k]])

update_menu_item(item_id, payload) ==
    IF item_id \notin DOMAIN menu_items
    THEN NoChange(Reply("update_menu_item", 404, "Menu item not found"))
    ELSE Result(Reply("update_menu_item", 200, "ok"),
                [menu_items EXCEPT ![item_id] = set_fields(@, payload)],
                orders, order_items)

\* The request model MenuItemUpdate: the fields of the body it has, the
\* others dropped.
MenuItemUpdate(data) ==
    [k \in DOMAIN data \cap {"price", "is_available"} |-> data[k]]

\* PUT /menu/{item_id}: the body is read as a MenuItemUpdate, then handled.
put_menu(item_id, data) == update_menu_item(item_id, MenuItemUpdate(data))

delete_menu_item(item_id) ==
    IF item_id \notin DOMAIN menu_items
    THEN NoChange(Reply("delete_menu_item", 404, "Menu item not found"))
    ELSE Result(Reply("delete_menu_item", 200, "deleted"),
                [i \in DOMAIN menu_items \ {item_id} |-> menu_items[i]],
                orders, order_items)

list_menu(available_only) ==
    { i \in DOMAIN menu_items : available_only => menu_items[i].is_available }

(***************************************************************************)
(* src/main.py: create_order.                                              *)
(***************************************************************************)
\* Mutation of no_items: the emptiness check is missing.
no_items_mut(items) == FALSE

no_items(items) == Len(items) = 0

\* Mutation of line_check: a missing item is reported as unavailable.
line_check_mut(it) ==
    IF it.item_id \notin DOMAIN menu_items
    THEN [code |-> 400, detail |-> "Item is not available"]
    ELSE IF ~menu_items[it.item_id].is_available
    THEN [code |-> 400, detail |-> "Item is not available"]
    ELSE [code |-> 200, detail |-> "ok"]

\* The check of one requested line against menu_map: 200, or the error raised.
line_check(it) ==
    IF it.item_id \notin DOMAIN menu_items
    THEN [code |-> 404, detail |-> "Menu item not found"]
    ELSE IF ~menu_items[it.item_id].is_available
    THEN [code |-> 400, detail |-> "Item is not available"]
    ELSE [code |-> 200, detail |-> "ok"]

\* Mutation of line_total: the quantity is dropped.
line_total_mut(m, it) == m.price

line_total(m, it) == m.price * it.quantity

\* The loop over payload.items: stops at the first line that fails, else
\* accumulates the total and the OrderItem rows.
RECURSIVE validate_items(_, _, _, _)
validate_items(items, i, total, lines) ==
    IF i > Len(items)
    THEN [code |-> 200, detail |-> "ok", total |-> total, order_items |-> lines]
    ELSE LET it == items[i]
             chk == line_check(it)
         IN  IF chk.code # 200
             THEN [code |-> chk.code, detail |-> chk.detail,
                   total |-> total, order_items |-> lines]
             ELSE LET m == menu_items[it.item_id]
                  IN  validate_items(items, i + 1, total + line_total(m, it),
                          Append(lines,
                                 [item_id |-> it.item_id,
                                  quantity |-> it.quantity,
                                  price_at_purchase |-> m.price]))

\* The status column's default for a new order row.
InitialStatus == "placed"

\* Order(token=..., total_amount=...) once flushed: id and column defaults set.
new_order(id, token, total_amount, now) ==
    [id |-> id, token |-> token, status |-> InitialStatus,
     total_amount |-> total_amount, created_at |-> now]

\* oi.order_id = order.id for every validated line.
attach(lines, id) ==
    [k \in 1..Len(lines) |->
        [order_id |-> id, item_id |-> lines[k].item_id,
         quantity |-> lines[k].quantity,
         price_at_purchase |-> lines[k].price_at_purchase]]

create_order(payload, token, now) ==
    IF no_items(payload)
    THEN NoChange(Reply("create_order", 400, "Order must contain at least one item"))
    ELSE LET v == validate_items(payload, 1, 0, <<>>)
         IN  IF v.code # 200
             THEN NoChange(Reply("create_order", v.code, v.detail))
             ELSE LET id == Len(orders) + 1
                      order == new_order(id, token, Round2(v.total), now)
                  IN  Result(Reply("create_order", 200, "ok"),
                             menu_items,
                             Append(orders, order),
                             order_items \o attach(v.order_items, id))

\* The request model OrderCreate: every line has a quantity of at least 1.
OrderCreate(payload) ==
    \A k \in 1..Len(payload) : payload[k].quantity >= 1

\* POST /orders: the body is validated against OrderCreate, then handled.
post_orders(payload, token, now) ==
    IF ~OrderCreate(payload)
    THEN NoChange(Reply("create_order", 422, "Unprocessable Entity"))
    ELSE create_order(payload, token, now)

(***************************************************************************)
(* src/main.py: orders read and status handlers.                           *)
(***************************************************************************)
\* status = "" stands for no status parameter. Rows come back by created_at,
\* which is the order of insertion.
list_orders(status) ==
    IF status # ""
    THEN SelectSeq(orders, LAMBDA o : o.status = status)
    ELSE orders

get_order(order_id) ==
    IF order_id \notin 1..Len(orders)
    THEN [code |-> 404, detail |-> "Order not found"]
    ELSE [code |-> 200, detail |-> "ok", order |-> orders[order_id],
          items |-> SelectSeq(order_items, LAMBDA oi : oi.order_id = order_id)]

\* Mutation of allowed: one more status is accepted.
allowed_mut ==
    {"placed", "preparing", "ready", "completed", "cancelled", "done"}

allowed == {"placed", "preparing", "ready", "completed", "cancelled"}

\* Mutation of update_status: the order is looked up before the status is
\* checked.
update_status_lookup_mut(order_id, status) ==
    IF order_id \notin 1..Len(orders)
    THEN NoChange(Reply("update_status", 404, "Order not found"))
    ELSE IF status \notin allowed
    THEN NoChange(Reply("update_status", 400, "Invalid status"))
    ELSE Result(Reply("update_status", 200, "ok"),
                menu_items,
                [orders EXCEPT ![order_id].status = status],
                order_items)

\* Mutation of update_status: completed and cancelled orders are final.
update_status_final_mut(order_id, status) ==
    IF status \notin allowed
    THEN NoChange(Reply("update_status", 400, "Invalid status"))
    ELSE IF order_id \notin 1..Len(orders)
    THEN NoChange(Reply("update_status", 404, "Order not found"))
    ELSE IF orders[order_id].status \in {"completed", "cancelled"}
    THEN NoChange(Reply("update_status", 400, "Invalid transition"))
    ELSE Result(Reply("update_status", 200, "ok"),
                menu_items,
                [orders EXCEPT ![order_id].status = status],
                order_items)

update_status(order_id, status) ==
    IF status \notin allowed
    THEN NoChange(Reply("update_status", 400, "Invalid status"))
    ELSE IF order_id \notin 1..Len(orders)
    THEN NoChange(Reply("update_status", 404, "Order not found"))
    ELSE Result(Reply("update_status", 200, "ok"),
                menu_items,
                [orders EXCEPT ![order_id].status = status],
                order_items)

active == {"placed", "preparing"}

\* select(func.count()) ... created_at <= order.created_at, status in active
count_active_upto(created_at) ==
    Cardinality({ i \in 1..Len(orders) :
                    /\ orders[i].created_at <= created_at
                    /\ orders[i].status \in active })

status_by_token(token) ==
    LET found == { i \in 1..Len(orders) : orders[i].token = token }
    IN  IF Cardinality(found) > 1
        THEN [code |-> 500, detail |-> "MultipleResultsFound"]
        ELSE IF found = {}
        THEN [code |-> 404, detail |-> "Invalid token"]
        ELSE LET order == orders[CHOOSE i \in found : TRUE]
                 queue_pos ==
                     IF order.status \in {"ready", "completed", "cancelled"}
                     THEN 0
                     ELSE count_active_upto(order.created_at)
             IN  [code |-> 200, detail |-> "ok", order_id |-> order.id,
                  token |-> order.token, status |-> order.status,
                  queue_position |-> queue_pos]

(***************************************************************************)
(* src/app.py: place_order.                                                *)
(***************************************************************************)
\* MenuItem.query.get(item['id']) found a row that is marked available.
item_orderable(item) ==
    /\ item.item_id \in DOMAIN menu_items
    /\ menu_items[item.item_id].available

\* The session after db.session.add(order); db.session.flush(): the new order
\* row and, later, its order_item rows, all still uncommitted.
flushed_order(id, now) ==
    [id |-> id, status |-> "pending", total_amount |-> 0,
     order_date |-> now, estimated_time |-> -1]

\* Mutation of rollback: the flushed rows stay.
rollback_mut(session) == session

\* db.session.rollback(): back to the committed tables.
rollback(session) == [orders |-> orders, order_items |-> order_items]

\* The loop over items: stops at the first line that is not orderable.
RECURSIVE add_order_items(_, _, _, _, _, _)
add_order_items(items, i, id, total_amount, max_prep_time, session) ==
    IF i > Len(items)
    THEN [ok |-> TRUE, total_amount |-> total_amount,
          max_prep_time |-> max_prep_time, session |-> session]
    ELSE LET item == items[i]
         IN  IF ~item_orderable(item)
             THEN [ok |-> FALSE, total_amount |-> total_amount,
                   max_prep_time |-> max_prep_time,
                   session |-> rollback(session)]
             ELSE LET menu_item == menu_items[item.item_id]
                      order_item == [order_id |-> id,
                                     menu_item_id |-> item.item_id,
                                     quantity |-> item.quantity,
                                     price |-> menu_item.price]
                      prep == menu_item.preparation_time
                  IN  add_order_items(items, i + 1, id,
                          total_amount + menu_item.price * item.quantity,
                          IF prep > max_prep_time THEN prep ELSE max_prep_time,
                          [session EXCEPT
                              !.order_items = Append(@, order_item)])

\* datetime.replace(minute=...) accepts 0..59 and raises ValueError otherwise.
minute_ok(m) == m \in 0..59

place_order(items, now, minute) ==
    IF Len(items) = 0
    THEN NoChange(Reply("place_order", 400, "No items in order"))
    ELSE LET id == Len(orders) + 1
             session == [orders |-> Append(orders, flushed_order(id, now)),
                         order_items |-> order_items]
             r == add_order_items(items, 1, id, 0, 0, session)
         IN  IF ~r.ok
             THEN Result(Reply("place_order", 400, "Item not available"),
                         menu_items, r.session.orders, r.session.order_items)
             ELSE IF ~minute_ok(minute + r.max_prep_time)
             THEN \* the ValueError leaves the handler before the commit
                  NoChange(Reply("place_order", 500, "ValueError"))
             ELSE Result(Reply("place_order", 201, "Order placed successfully"),
                         menu_items,
                         [r.session.orders EXCEPT
                             ![id].total_amount = r.total_amount,
                             ![id].estimated_time = minute + r.max_prep_time],
                         r.session.order_items)

(***************************************************************************)
(* src/app.py: staff handlers and order reads.                             *)
(***************************************************************************)
web_get_order(order_id) ==
    IF order_id \notin 1..Len(orders)
    THEN [code |-> 404, detail |-> "Not Found"]
    ELSE [code |-> 200, detail |-> "ok", order |-> orders[order_id],
          items |-> SelectSeq(order_items, LAMBDA oi : oi.order_id = order_id)]

\* Mutation of api_staff_orders: the oldest order first.
api_staff_orders_mut(status_filter) ==
    IF status_filter # "all"
    THEN SelectSeq(orders, LAMBDA o : o.status = status_filter)
    ELSE orders

\* The newest order first: order_by(Order.order_date.desc()).
api_staff_orders(status_filter) ==
    IF status_filter # "all"
    THEN Reverse(SelectSeq(orders, LAMBDA o : o.status = status_filter))
    ELSE Reverse(orders)

\* Mutation of valid_statuses: one more status is accepted.
valid_statuses_mut ==
    {"pending", "preparing", "ready", "completed", "cancelled", "done"}

valid_statuses == {"pending", "preparing", "ready", "completed", "cancelled"}

\* Mutation of update_order_status: cancelling an order removes its lines.
update_order_status_mut(order_id, new_status) ==
    IF order_id \notin 1..Len(orders)
    THEN NoChange(Reply("update_order_status", 404, "Not Found"))
    ELSE IF new_status \notin valid_statuses
    THEN NoChange(Reply("update_order_status", 400, "Invalid status"))
    ELSE Result(Reply("update_order_status", 200, "Order status updated successfully"),
                menu_items,
                [orders EXCEPT ![order_id].status = new_status],
                IF new_status = "cancelled"
                THEN SelectSeq(order_items, LAMBDA oi : oi.order_id # order_id)
                ELSE order_items)

update_order_status(order_id, new_status) ==
    IF order_id \notin 1..Len(orders)
    THEN NoChange(Reply("update_order_status", 404, "Not Found"))
    ELSE IF new_status \notin valid_statuses
    THEN NoChange(Reply("update_order_status", 400, "Invalid status"))
    ELSE Result(Reply("update_order_status", 200, "Order status updated successfully"),
                menu_items,
                [orders EXCEPT ![order_id].status = new_status],
                order_items)

\* Mutation of staff_update_menu_item: the name in the body is stored too.
staff_update_menu_item_mut(item_id, data) ==
    IF item_id \notin DOMAIN menu_items
    THEN NoChange(Reply("staff_update_menu_item", 404, "Not Found"))
    ELSE Result(Reply("staff_update_menu_item", 200, "Menu item updated successfully"),
                [menu_items EXCEPT ![item_id] =
                    [k \in DOMAIN @ |->
                        IF k \in DOMAIN data
                              /\ k \in {"available", "price",
                                        "preparation_time", "name"}
                        THEN data[k] ELSE @[k]]],
                orders, order_items)

staff_update_menu_item(item_id, data) ==
    IF item_id \notin DOMAIN menu_items
    THEN NoChange(Reply("staff_update_menu_item", 404, "Not Found"))
    ELSE LET item == menu_items[item_id]
             updated ==
                 [item EXCEPT
                     !.available =
                         IF "available" \in DOMAIN data
                         THEN data.available ELSE @,
                     !.price =
                         IF "price" \in DOMAIN data
                         THEN data.price ELSE @,
                     !.preparation_time =
                         IF "preparation_time" \in DOMAIN data
                         THEN data.preparation_time ELSE @]
         IN  Result(Reply("staff_update_menu_item", 200, "Menu item updated successfully"),
                    [menu_items EXCEPT ![item_id] = updated],
                    orders, order_items)

(***************************************************************************)
(* The state after start-up.                                               *)
(***************************************************************************)
\* main.py creates empty tables; app.py runs init_database.
InitialMenu(p) ==
    IF p = "api" THEN <<>> ELSE [i \in ItemIds |-> SampleItems[i]]

NoResponse == Reply("none", 0, "none")

\* No order request is in progress.
NoTxn == [pc |-> "idle"]

Init ==
    /\ program \in {"api", "web"}
    /\ menu_items = InitialMenu(program)
    /\ orders = <<>>
    /\ order_items = <<>>
    /\ resp = NoResponse
    /\ txn = NoTxn

(***************************************************************************)
(* Requests: a handler applied to the committed store.                     *)
(***************************************************************************)
Commit(result) ==
    /\ resp' = result.resp
    /\ menu_items' = result.menu_items
    /\ orders' = result.orders
    /\ order_items' = result.order_items
    /\ UNCHANGED <<program, txn>>

\* The clock read when an order row is inserted never runs backwards.
LastTime ==
    IF orders = <<>> THEN 0
    ELSE IF program = "api" THEN orders[Len(orders)].created_at
    ELSE orders[Len(orders)].order_date

\* Payloads of the staff menu requests.
MenuCreates == [name : {"Tea"}, price : Prices, is_available : BOOLEAN]

MenuUpdates ==
    [price : Prices] \cup [is_available : BOOLEAN]
        \cup {[price |-> 1253, is_available |-> FALSE]}

StaffMenuUpdates == [available : BOOLEAN] \cup [price : {1253}]

\* Statuses a staff request may send, inside and outside the vocabularies.
StatusInputs == allowed \cup valid_statuses \cup {"done"}

CreateMenuItem(payload) ==
    /\ program = "api"
    /\ NextItemId \in ItemIds
    /\ Commit(create_menu_item(payload))

UpdateMenuItem(item_id, payload) ==
    /\ program = "api"
    /\ Commit(put_menu(item_id, payload))

DeleteMenuItem(item_id) ==
    /\ program = "api"
    /\ Commit(delete_menu_item(item_id))

CreateOrder(payload, token, now) ==
    /\ program = "api"
    /\ Commit(post_orders(payload, token, now))

UpdateStatus(order_id, status) ==
    /\ program = "api"
    /\ Commit(update_status(order_id, status))

PlaceOrder(items, now, minute) ==
    /\ program = "web"
    /\ Commit(place_order(items, now, minute))

UpdateOrderStatus(order_id, new_status) ==
    /\ program = "web"
    /\ Commit(update_order_status(order_id, new_status))

StaffUpdateMenuItem(item_id, data) ==
    /\ program = "web"
    /\ Commit(staff_update_menu_item(item_id, data))

(***************************************************************************)
(* Spec: the catalogue and ordering workload.  Every handler that writes   *)
(* is driven; generate_token returns a token not yet used and the clock     *)
(* advances between two orders.                                            *)
(***************************************************************************)
Next ==
    \/ \E payload \in MenuCreates : CreateMenuItem(payload)
    \/ \E item_id \in ItemIds, payload \in MenuUpdates :
           UpdateMenuItem(item_id, payload)
    \/ \E item_id \in ItemIds : DeleteMenuItem(item_id)
    \/ \E payload \in Payloads :
           /\ Len(orders) < MaxOrders
           /\ CreateOrder(payload, TokenPool[Len(orders) + 1], LastTime + 1)
    \/ \E order_id \in 1..MaxOrders, status \in {"cancelled", "done"} :
           UpdateStatus(order_id, status)
    \/ \E items \in Payloads, minute \in Minutes :
           /\ Len(orders) < MaxOrders
           /\ PlaceOrder(items, LastTime + 1, minute)
    \/ \E order_id \in 1..MaxOrders, new_status \in {"cancelled", "done"} :
           UpdateOrderStatus(order_id, new_status)
    \/ \E item_id \in ItemIds, data \in StaffMenuUpdates :
           StaffUpdateMenuItem(item_id, data)

Spec == Init /\ [][Next]_vars

(***************************************************************************)
(* SpecQueue: the order-tracking workload.  One menu item, one payload;    *)
(* generate_token may repeat a token, two orders may read the same clock   *)
(* value, and staff send every status.                                     *)
(***************************************************************************)
QueueTimes == IF orders = <<>> THEN {1} ELSE {LastTime, LastTime + 1}

NextQueue ==
    \/ /\ DOMAIN menu_items = {}
       /\ CreateMenuItem([name |-> "Tea", price |-> 5990,
                          is_available |-> TRUE])
    \/ \E payload \in QueuePayloads, token \in QueueTokens, now \in QueueTimes :
           /\ Len(orders) < MaxQueue
           /\ CreateOrder(payload, token, now)
    \/ \E order_id \in 1..MaxQueue, status \in StatusInputs :
           UpdateStatus(order_id, status)
    \/ \E items \in QueuePayloads, now \in QueueTimes :
           /\ Len(orders) < MaxQueue
           /\ PlaceOrder(items, now, 5)
    \/ \E order_id \in 1..MaxQueue, new_status \in StatusInputs :
           UpdateOrderStatus(order_id, new_status)

SpecQueue == Init /\ [][NextQueue]_vars

(***************************************************************************)
(* SpecTxn: one order request taken step by step, a step at each of the     *)
(* handler's exchanges with the database, while staff requests run in      *)
(* between.  orders and order_items are the committed tables, which is     *)
(* what any other request reads; the rows the request has flushed but not  *)
(* committed are in txn.  The store of src/main.py is whatever database.py *)
(* configures: no lock is assumed for it.                                  *)
(***************************************************************************)
\* Mutation of db_flush: the flushed rows are committed at once.
db_flush_mut(table, rows) == table \o rows

\* db.flush(): the rows go to the database inside the open transaction; the
\* committed table is as before.
db_flush(table, rows) == table

\* db.commit(): the rows of the transaction join the committed table.
db_commit(table, rows) == table \o rows

TxnPayloads == { <<Line(1, 1), Line(2, 2)>>, <<Line(2, 1)>> }

\* The store of src/app.py is one SQLite file: from its first write to its
\* commit or rollback a transaction holds the write lock of the database,
\* and the write of any other request waits for it.
WriteLockFree == txn.pc # "flushed"

\* create_order up to the end of its loop: the catalogue is read and every
\* line is checked against it.
CreateOrderValidate(payload, token, now) ==
    /\ program = "api"
    /\ txn = NoTxn
    /\ IF no_items(payload)
       THEN /\ resp' = Reply("create_order", 400,
                             "Order must contain at least one item")
            /\ UNCHANGED txn
       ELSE LET v == validate_items(payload, 1, 0, <<>>)
            IN  IF v.code # 200
                THEN /\ resp' = Reply("create_order", v.code, v.detail)
                     /\ UNCHANGED txn
                ELSE /\ txn' = [pc |-> "validated", op |-> "create_order",
                                payload |-> payload, token |-> token,
                                now |-> now, total |-> v.total,
                                lines |-> v.order_items]
                     /\ UNCHANGED resp
    /\ UNCHANGED <<program, menu_items, orders, order_items>>

\* db.add(order); db.flush()
CreateOrderFlush ==
    /\ txn.pc = "validated"
    /\ LET id == Len(orders) + 1
           order == new_order(id, txn.token, Round2(txn.total), txn.now)
       IN  /\ txn' = [pc |-> "flushed", op |-> "create_order",
                      payload |-> txn.payload, order |-> order,
                      lines |-> attach(txn.lines, id)]
           /\ orders' = db_flush(orders, <<order>>)
    /\ UNCHANGED <<program, menu_items, order_items, resp>>

\* The lines are attached to the order; db.commit()
CreateOrderCommit ==
    /\ txn.pc = "flushed"
    /\ txn.op = "create_order"
    /\ orders' = db_commit(orders, <<txn.order>>)
    /\ order_items' = db_commit(order_items, txn.lines)
    /\ resp' = Reply("create_order", 200, "ok")
    /\ txn' = NoTxn
    /\ UNCHANGED <<program, menu_items>>

\* place_order up to db.session.flush() of the new order.
PlaceOrderBegin(items, now, minute) ==
    /\ program = "web"
    /\ txn = NoTxn
    /\ IF Len(items) = 0
       THEN /\ resp' = Reply("place_order", 400, "No items in order")
            /\ UNCHANGED <<txn, orders>>
       ELSE LET order == flushed_order(Len(orders) + 1, now)
            IN  /\ txn' = [pc |-> "flushed", op |-> "place_order",
                           payload |-> items, i |-> 1, order |-> order,
                           lines |-> <<>>, total_amount |-> 0,
                           max_prep_time |-> 0, minute |-> minute]
                /\ orders' = db_flush(orders, <<order>>)
                /\ UNCHANGED resp
    /\ UNCHANGED <<program, menu_items, order_items>>

\* One round of the loop of place_order: the menu item is read and the line
\* is added to the session, or the transaction is rolled back.
PlaceOrderLine ==
    /\ txn.pc = "flushed"
    /\ txn.op = "place_order"
    /\ txn.i <= Len(txn.payload)
    /\ LET r == add_order_items(<<txn.payload[txn.i]>>, 1, txn.order.id,
                                txn.total_amount, txn.max_prep_time,
                                [orders |-> <<txn.order>>,
                                 order_items |-> txn.lines])
       IN  IF ~r.ok
           THEN /\ resp' = Reply("place_order", 400, "Item not available")
                /\ txn' = NoTxn
                /\ orders' = rollback(r.session).orders
                /\ order_items' = rollback(r.session).order_items
           ELSE /\ txn' = [txn EXCEPT !.i = @ + 1,
                                      !.lines = r.session.order_items,
                                      !.total_amount = r.total_amount,
                                      !.max_prep_time = r.max_prep_time]
                /\ order_items' =
                       db_flush(order_items,
                                <<r.session.order_items[Len(r.session.order_items)]>>)
                /\ UNCHANGED <<orders, resp>>
    /\ UNCHANGED <<program, menu_items>>

\* The total and the estimated time are set; db.session.commit()
PlaceOrderCommit ==
    /\ txn.pc = "flushed"
    /\ txn.op = "place_order"
    /\ txn.i > Len(txn.payload)
    /\ IF ~minute_ok(txn.minute + txn.max_prep_time)
       THEN /\ resp' = Reply("place_order", 500, "ValueError")
            /\ UNCHANGED <<orders, order_items>>
       ELSE /\ resp' = Reply("place_order", 201, "Order placed successfully")
            /\ orders' =
                   db_commit(orders,
                       <<[txn.order EXCEPT
                             !.total_amount = txn.total_amount,
                             !.estimated_time =
                                 txn.minute + txn.max_prep_time]>>)
            /\ order_items' = db_commit(order_items, txn.lines)
    /\ txn' = NoTxn
    /\ UNCHANGED <<program, menu_items>>

NextTxn ==
    \/ \E payload \in MenuCreates : CreateMenuItem(payload)
    \/ \E item_id \in ItemIds, b \in BOOLEAN :
           UpdateMenuItem(item_id, [is_available |-> b])
    \/ \E item_id \in ItemIds : DeleteMenuItem(item_id)
    \/ \E order_id \in 1..MaxOrders : UpdateStatus(order_id, "preparing")
    \/ \E item_id \in ItemIds, b \in BOOLEAN :
           /\ WriteLockFree
           /\ StaffUpdateMenuItem(item_id, [available |-> b])
    \/ \E order_id \in 1..MaxOrders :
           /\ WriteLockFree
           /\ UpdateOrderStatus(order_id, "preparing")
    \/ \E payload \in TxnPayloads :
           /\ Len(orders) < MaxOrders
           /\ CreateOrderValidate(payload, TokenPool[Len(orders) + 1],
                                  LastTime + 1)
    \/ CreateOrderFlush
    \/ CreateOrderCommit
    \/ \E items \in TxnPayloads, minute \in Minutes :
           /\ Len(orders) < MaxOrders
           /\ PlaceOrderBegin(items, LastTime + 1, minute)
    \/ PlaceOrderLine
    \/ PlaceOrderCommit

SpecTxn == Init /\ [][NextTxn]_vars

(***************************************************************************)
(* Vocabulary of the properties.                                           *)
(***************************************************************************)
\* The order request of the running program, with the token and clock value
\* of the catalogue workload.
OrderRequest(p, minute) ==
    IF program = "api"
    THEN create_order(p, TokenPool[Len(orders) + 1], LastTime + 1)
    ELSE place_order(p, LastTime + 1, minute)

Succeeded(r) == r.resp.code \in {200, 201}

NothingPersisted(r) ==
    /\ r.orders = orders
    /\ r.order_items = order_items

LineExists(l) == l.item_id \in DOMAIN menu_items

LineAvailable(l) ==
    IF program = "api"
    THEN menu_items[l.item_id].is_available
    ELSE menu_items[l.item_id].available

\* The sum over the lines of a request of the menu price times the quantity.
ExactTotal(p) ==
    SumSeq([k \in 1..Len(p) |-> menu_items[p[k].item_id].price * p[k].quantity])

\* The order_item rows of an order in a table, and the price each captured.
LinesOf(table, id) == SelectSeq(table, LAMBDA oi : oi.order_id = id)

LineItem(oi) == IF program = "api" THEN oi.item_id ELSE oi.menu_item_id

LinePrice(oi) == IF program = "api" THEN oi.price_at_purchase ELSE oi.price

LinesSum(table, id) ==
    LET ls == LinesOf(table, id)
    IN  SumSeq([k \in 1..Len(ls) |-> LinePrice(ls[k]) * ls[k].quantity])

\* The new order of a successful request stores the lines of the request,
\* each with the menu price of its item.
LinesCaptured(p, r) ==
    LET ls == LinesOf(r.order_items, Len(orders) + 1)
    IN  /\ Len(r.orders) = Len(orders) + 1
        /\ Len(ls) = Len(p)
        /\ \A k \in 1..Len(p) :
              /\ LineItem(ls[k]) = p[k].item_id
              /\ ls[k].quantity = p[k].quantity
              /\ LinePrice(ls[k]) = menu_items[p[k].item_id].price

\* What the running program stores as total for a sum of line totals.
StoredTotal(x) == IF program = "api" THEN Round2(x) ELSE x

IsEmptyOrder(r) ==
    /\ r.code = 400
    /\ r.detail = IF program = "api"
                  THEN "Order must contain at least one item"
                  ELSE "No items in order"

IsItemNotFound(r) == r.code = 404 /\ r.detail = "Menu item not found"

IsItemUnavailable(r) ==
    /\ r.code = 400
    /\ r.detail = IF program = "api"
                  THEN "Item is not available" ELSE "Item not available"

(***************************************************************************)
(* C1.  The total and the captured prices of a new order.                  *)
(***************************************************************************)
\* C1 as stated: every successful create_order / place_order request stores
\* as total the sum over its lines of (menu price at submission x quantity),
\* and each line captures the menu price at submission.
C1_TotalIsExactSum ==
    \A p \in Payloads, minute \in Minutes :
        LET r == OrderRequest(p, minute)
        IN  Succeeded(r) =>
                /\ LinesCaptured(p, r)
                /\ r.orders[Len(orders) + 1].total_amount = ExactTotal(p)

\* C1 (amended): every successful request stores the lines of the request,
\* each with the menu price at submission; place_order stores as total the
\* sum over the lines of price x quantity, create_order stores that sum
\* rounded to two decimals.
C1_TotalIsStoredSum ==
    \A p \in Payloads, minute \in Minutes :
        LET r == OrderRequest(p, minute)
        IN  Succeeded(r) =>
                /\ LinesCaptured(p, r)
                /\ r.orders[Len(orders) + 1].total_amount
                       = StoredTotal(ExactTotal(p))

\* A two-line order has just been created whose total the rounding changed.
C1_Witness ==
    /\ resp = Reply("create_order", 200, "ok")
    /\ Len(LinesOf(order_items, Len(orders))) = 2
    /\ orders[Len(orders)].total_amount # LinesSum(order_items, Len(orders))
    /\ orders[Len(orders)].total_amount
           = Round2(LinesSum(order_items, Len(orders)))

(***************************************************************************)
(* C2.  Totals and captured prices never change.                           *)
(***************************************************************************)
\* No step changes the total of an existing order or its lines.
OrdersKept ==
    \A i \in 1..Len(orders) :
        /\ i <= Len(orders')
        /\ orders'[i].total_amount = orders[i].total_amount
        /\ LinesOf(order_items', i) = LinesOf(order_items, i)

\* C2 as stated: no later operation changes the total of an order or the
\* captured price of its lines, and in every state the total of every order
\* equals the sum of its lines' captured price x quantity.
C2_TotalFixedAndExact ==
    [][ /\ OrdersKept
        /\ \A i \in 1..Len(orders') :
               orders'[i].total_amount = LinesSum(order_items', i) ]_vars

\* Every order's total is the stored form of the sum of its lines.
TotalsStored ==
    \A i \in 1..Len(orders) :
        orders[i].total_amount = StoredTotal(LinesSum(order_items, i))

\* C2 (amended): no later operation changes the total of an order or the
\* captured price of its lines, and in every state the total of every order
\* equals the sum of its lines' captured price x quantity, rounded to two
\* decimals for an order made by create_order.
C2_TotalFixedAndStored == []TotalsStored /\ [][OrdersKept]_vars

\* Two orders exist; a line of the first captured a price its menu item no
\* longer has, the status of the first changed, and the order is as stored.
C2_Witness ==
    /\ Len(orders) = 2
    /\ orders[1].status = "cancelled"
    /\ \E k \in 1..Len(order_items) :
          /\ order_items[k].order_id = 1
          /\ LineItem(order_items[k]) \in DOMAIN menu_items
          /\ menu_items[LineItem(order_items[k])].price
                 # LinePrice(order_items[k])
    /\ orders[1].total_amount = StoredTotal(LinesSum(order_items, 1))

(***************************************************************************)
(* C3.  A request with an unavailable line fails as a whole.               *)
(***************************************************************************)
\* C3: a request of several lines, all of existing menu items and one of
\* them unavailable, at whatever position, fails with ItemUnavailable and
\* leaves the orders and the order lines as they were.
C3_UnavailableFailsWhole ==
    \A p \in Payloads, minute \in Minutes :
        ( /\ Len(p) >= 2
          /\ \A k \in 1..Len(p) : LineExists(p[k])
          /\ \E k \in 1..Len(p) : ~LineAvailable(p[k]) )
        => LET r == OrderRequest(p, minute)
           IN  /\ IsItemUnavailable(r.resp)
               /\ NothingPersisted(r)

\* An order request has just failed with ItemUnavailable while the menu has
\* an available and an unavailable item.
C3_Witness ==
    /\ resp.op \in {"create_order", "place_order"}
    /\ IsItemUnavailable(resp)
    /\ \E i, j \in DOMAIN menu_items :
          /\ LineAvailable([item_id |-> i])
          /\ ~LineAvailable([item_id |-> j])

(***************************************************************************)
(* C4.  A request that names a missing menu item.                          *)
(***************************************************************************)
\* The first line of a request that names a missing or unavailable item.
Invalid(l) == ~LineExists(l) \/ ~LineAvailable(l)

FirstInvalid(p) ==
    CHOOSE k \in 1..Len(p) :
        /\ Invalid(p[k])
        /\ \A j \in 1..(k - 1) : ~Invalid(p[j])

\* C4 as stated: a request in which any line names a menu item id that does
\* not exist fails with ItemNotFound, which is not the ItemUnavailable
\* response, and persists nothing.
C4_MissingIsNotFound ==
    \A p \in Payloads, minute \in Minutes :
        (\E k \in 1..Len(p) : ~LineExists(p[k]))
        => LET r == OrderRequest(p, minute)
           IN  /\ IsItemNotFound(r.resp)
               /\ ~IsItemUnavailable(r.resp)
               /\ NothingPersisted(r)

\* C4 (amended): a request in which any line names a menu item id that does
\* not exist fails and persists nothing.  create_order fails with
\* ItemNotFound when the first invalid line names a missing id, and with
\* ItemUnavailable when an unavailable line comes first; place_order fails
\* with the response it gives for an unavailable item.
C4_MissingFails ==
    \A p \in Payloads, minute \in Minutes :
        (\E k \in 1..Len(p) : ~LineExists(p[k]))
        => LET r == OrderRequest(p, minute)
           IN  /\ NothingPersisted(r)
               /\ IF program = "web"
                  THEN IsItemUnavailable(r.resp)
                  ELSE IF LineExists(p[FirstInvalid(p)])
                  THEN IsItemUnavailable(r.resp)
                  ELSE IsItemNotFound(r.resp) /\ ~IsItemUnavailable(r.resp)

\* create_order has just failed with ItemNotFound with an order in the store.
C4_Witness ==
    /\ resp.op = "create_order"
    /\ IsItemNotFound(resp)
    /\ Len(orders) >= 1

(***************************************************************************)
(* C5.  A request without lines.                                           *)
(***************************************************************************)
\* C5: a request with zero lines fails with EmptyOrder whatever the menu
\* holds, and leaves the store unchanged.
C5_EmptyOrderFails ==
    \A minute \in Minutes :
        LET r == OrderRequest(<<>>, minute)
        IN  /\ IsEmptyOrder(r.resp)
            /\ NothingPersisted(r)
            /\ r.menu_items = menu_items

\* An order request has just failed with EmptyOrder, with items on the menu.
C5_Witness ==
    /\ resp.op \in {"create_order", "place_order"}
    /\ IsEmptyOrder(resp)
    /\ DOMAIN menu_items # {}

(***************************************************************************)
(* C6, C7, C9, C10.  Tokens and queue positions (src/main.py).             *)
(***************************************************************************)
\* C10 as stated: no two persisted orders carry the same tracking token.
C10_TokensUnique ==
    program = "api" =>
        \A i, j \in 1..Len(orders) :
            i # j => orders[i].token # orders[j].token

\* No two orders were inserted at the same clock value.
TimesDistinct ==
    \A i, j \in 1..Len(orders) :
        i # j => orders[i].created_at # orders[j].created_at

\* C6 as stated: get_status on the token of an order whose status is ready,
\* completed or cancelled returns queue position 0.
C6_ReadyHasPositionZero ==
    program = "api" =>
        \A i \in 1..Len(orders) :
            orders[i].status \in {"ready", "completed", "cancelled"}
            => LET r == status_by_token(orders[i].token)
               IN  r.code = 200 /\ r.queue_position = 0

\* C6 restricted to the states in which the tokens are distinct.
C6_IfTokensUnique ==
    (program = "api" /\ C10_TokensUnique) => C6_ReadyHasPositionZero

\* C7 as stated: when every order still has the initial status, get_status
\* on the k-th placed order returns queue position k.
C7_KthHasPositionK ==
    ( /\ program = "api"
      /\ \A i \in 1..Len(orders) : orders[i].status = "placed" )
    => \A k \in 1..Len(orders) :
           LET r == status_by_token(orders[k].token)
           IN  r.code = 200 /\ r.queue_position = k

\* C7 restricted to distinct tokens and distinct insertion times.
C7_IfTokensAndTimesDistinct ==
    (program = "api" /\ C10_TokensUnique /\ TimesDistinct)
    => C7_KthHasPositionK

\* C9 as stated: right after a successful create_order the new order has the
\* initial status and a token, and get_status on that token returns the
\* initial status with queue position 1 when no other order is active.
C9_NewOrderIsFirst ==
    (program = "api" /\ resp = Reply("create_order", 200, "ok"))
    => LET n == Len(orders)
           r == status_by_token(orders[n].token)
       IN  /\ orders[n].status = "placed"
           /\ orders[n].token \in QueueTokens
           /\ (\A i \in 1..(n - 1) : orders[i].status \notin {"placed", "preparing"})
              => /\ r.code = 200
                 /\ r.status = "placed"
                 /\ r.queue_position = 1

\* C9 restricted to the states in which the tokens are distinct.
C9_IfTokensUnique ==
    C10_TokensUnique => C9_NewOrderIsFirst

(***************************************************************************)
(* C8.  A status outside the vocabulary.                                   *)
(***************************************************************************)
\* The fixed vocabulary of each program.
Vocabulary ==
    IF program = "api"
    THEN {"placed", "preparing", "ready", "completed", "cancelled"}
    ELSE {"pending", "preparing", "ready", "completed", "cancelled"}

StatusRequest(order_id, s) ==
    IF program = "api"
    THEN update_status(order_id, s)
    ELSE update_order_status(order_id, s)

\* C8: update_status of an existing order with a status outside the fixed
\* vocabulary fails with InvalidStatus and leaves the status of that order
\* and of every other order, and the rest of the store, unchanged.
C8_InvalidStatusRejected ==
    \A order_id \in 1..Len(orders), s \in StatusInputs \ Vocabulary :
        LET r == StatusRequest(order_id, s)
        IN  /\ r.resp.code = 400
            /\ r.resp.detail = "Invalid status"
            /\ r.orders = orders
            /\ r.order_items = order_items
            /\ r.menu_items = menu_items

\* A status request has just failed with InvalidStatus while two orders
\* exist, one of which has left the initial status.
C8_Witness ==
    /\ resp.op \in {"update_status", "update_order_status"}
    /\ resp.code = 400
    /\ resp.detail = "Invalid status"
    /\ Len(orders) >= 2
    /\ \E i \in 1..Len(orders) : orders[i].status = "ready"

(***************************************************************************)
(* C11.  Order lines and the menu items they refer to.                     *)
(***************************************************************************)
\* C11 as stated: in every state every persisted order line refers to a menu
\* item that is still in the catalogue.
C11_LinesReferToMenu ==
    \A k \in 1..Len(order_items) :
        LineItem(order_items[k]) \in DOMAIN menu_items

(***************************************************************************)
(* C12.  A status request for an order that does not exist.                *)
(***************************************************************************)
\* The order ids a status request may name, one more than can exist.
OrderIds == 1..(MaxQueue + 1)

StoreUnchanged(r) ==
    /\ r.menu_items = menu_items
    /\ r.orders = orders
    /\ r.order_items = order_items

IsOrderNotFound(r) ==
    /\ r.code = 404
    /\ r.detail = IF program = "api" THEN "Order not found" ELSE "Not Found"

IsInvalidStatus(r) == r.code = 400 /\ r.detail = "Invalid status"

\* C12 as stated: update_status with an id that matches no order fails with
\* OrderNotFound whatever status is sent, and changes nothing in the store.
C12_MissingOrderIsNotFound ==
    \A order_id \in OrderIds \ (1..Len(orders)), s \in StatusInputs :
        LET r == StatusRequest(order_id, s)
        IN  IsOrderNotFound(r.resp) /\ StoreUnchanged(r)

\* C12 (amended): update_status with an id that matches no order changes
\* nothing in the store; it fails with OrderNotFound, except that the
\* update_status of src/main.py, which checks the status first, fails with
\* InvalidStatus when the status sent is outside the vocabulary.
C12_MissingOrderFails ==
    \A order_id \in OrderIds \ (1..Len(orders)), s \in StatusInputs :
        LET r == StatusRequest(order_id, s)
        IN  /\ StoreUnchanged(r)
            /\ IF program = "api" /\ s \notin allowed
               THEN IsInvalidStatus(r.resp)
               ELSE IsOrderNotFound(r.resp)

\* A status request has just failed with OrderNotFound with an order in the
\* store.
C12_Witness ==
    /\ resp.op \in {"update_status", "update_order_status"}
    /\ IsOrderNotFound(resp)
    /\ Len(orders) >= 1

(***************************************************************************)
(* C13.  No transition graph.                                              *)
(***************************************************************************)
\* C13: for an existing order in whatever status and any status t of the
\* vocabulary, t equal to the current status and moves out of completed or
\* cancelled included, update_status succeeds and the stored status is t.
C13_AnyTransitionAllowed ==
    \A order_id \in 1..Len(orders), t \in Vocabulary :
        LET r == StatusRequest(order_id, t)
        IN  /\ Succeeded(r)
            /\ r.orders[order_id].status = t

\* A status request has just succeeded; a completed order, a cancelled order
\* and an order in the initial status are in the store.
C13_Witness ==
    /\ resp.op \in {"update_status", "update_order_status"}
    /\ resp.code = 200
    /\ \E i, j, k \in 1..Len(orders) :
          /\ orders[i].status = "completed"
          /\ orders[j].status = "cancelled"
          /\ orders[k].status \in {"placed", "pending"}

(***************************************************************************)
(* C14.  The statuses that are persisted.                                  *)
(***************************************************************************)
\* The status a new order gets.
InitialOf(p) == IF p = "api" THEN InitialStatus ELSE "pending"

\* C14: in every state the status of every order is in the vocabulary its
\* program's update_status accepts, and a successful order request gives the
\* new order the initial status of that vocabulary.
C14_StatusInVocabulary ==
    /\ \A i \in 1..Len(orders) : orders[i].status \in Vocabulary
    /\ InitialOf(program) \in Vocabulary
    /\ \A p \in Payloads, minute \in Minutes :
           LET r == OrderRequest(p, minute)
           IN  Succeeded(r) =>
                   r.orders[Len(orders) + 1].status = InitialOf(program)

\* An order has just been created with the initial status while another
\* order is cancelled.
C14_Witness ==
    /\ resp.op \in {"create_order", "place_order"}
    /\ resp.code \in {200, 201}
    /\ orders[Len(orders)].status = InitialOf(program)
    /\ \E i \in 1..Len(orders) : orders[i].status = "cancelled"

(***************************************************************************)
(* C15.  The queue position of an active order (src/main.py).              *)
(***************************************************************************)
\* The orders that are active and whose creation time is not after order i's.
ActiveNotAfter(i) ==
    { j \in 1..Len(orders) :
        /\ orders[j].created_at <= orders[i].created_at
        /\ orders[j].status \in {"placed", "preparing"} }

\* The active orders placed no later than order i, order i included.
ActivePlacedUpTo(i) ==
    { j \in 1..i : orders[j].status \in {"placed", "preparing"} }

\* C15 as stated: for an order whose status is active, get_status returns as
\* queue position the number of orders that are active and whose creation
\* time is <= its own, which is its 1-based rank among the active orders in
\* placement order.
C15_PositionIsCountAndRank ==
    program = "api" =>
        \A i \in 1..Len(orders) :
            orders[i].status \in {"placed", "preparing"}
            => LET r == status_by_token(orders[i].token)
               IN  /\ r.code = 200
                   /\ r.queue_position = Cardinality(ActiveNotAfter(i))
                   /\ r.queue_position = Cardinality(ActivePlacedUpTo(i))

\* C15 restricted to distinct tokens and distinct insertion times.
C15_IfTokensAndTimesDistinct ==
    (program = "api" /\ C10_TokensUnique /\ TimesDistinct)
    => C15_PositionIsCountAndRank

(***************************************************************************)
(* C17.  An order is never structurally changed or removed (SpecTxn).      *)
(***************************************************************************)
\* The order row but for its status.
Structure(o) == [o EXCEPT !.status = "-"]

\* Every order is kept by a step, the same row but for the status; every
\* order line is kept as it is, and a new line belongs to a new order.
StructureKept ==
    /\ Len(orders') >= Len(orders)
    /\ \A i \in 1..Len(orders) :
           Structure(orders'[i]) = Structure(orders[i])
    /\ Len(order_items') >= Len(order_items)
    /\ \A k \in 1..Len(order_items') :
           IF k <= Len(order_items)
           THEN order_items'[k] = order_items[k]
           ELSE order_items'[k].order_id > Len(orders)

OrderRead(order_id) ==
    IF program = "api" THEN get_order(order_id) ELSE web_get_order(order_id)

\* Every order is retrievable by its id, and a status request changes at
\* most the status field of the order it names.
StatusOnly ==
    /\ \A i \in 1..Len(orders) :
           /\ orders[i].id = i
           /\ OrderRead(i).code = 200
           /\ OrderRead(i).order = orders[i]
           /\ OrderRead(i).items = LinesOf(order_items, i)
    /\ \A order_id \in 1..(Len(orders) + 1), s \in Vocabulary \cup {"done"} :
           LET r == StatusRequest(order_id, s)
           IN  /\ r.menu_items = menu_items
               /\ r.order_items = order_items
               /\ Len(r.orders) = Len(orders)
               /\ \A j \in 1..Len(orders) :
                      IF j = order_id
                      THEN Structure(r.orders[j]) = Structure(orders[j])
                      ELSE r.orders[j] = orders[j]

\* C17: under any sequence of operations the identity, token, creation time
\* and lines of an order stay as created and the order stays retrievable;
\* update_status changes only the status field of the order it names.
C17_StructureFixed == []StatusOnly /\ [][StructureKept]_vars

\* A status request has just succeeded on the first of two orders, which
\* keeps its two lines.
C17_Witness ==
    /\ resp.op \in {"update_status", "update_order_status"}
    /\ resp.code = 200
    /\ Len(orders) = 2
    /\ orders[1].status = "preparing"
    /\ Len(LinesOf(order_items, 1)) = 2

(***************************************************************************)
(* C18.  The listing of the orders.                                        *)
(***************************************************************************)
\* The value of the status parameter that stands for no filter.
NoFilter == IF program = "api" THEN "" ELSE "all"

ListRequest(f) ==
    IF program = "api" THEN list_orders(f) ELSE api_staff_orders(f)

CreationTime(o) == IF program = "api" THEN o.created_at ELSE o.order_date

\* The listing holds each order the filter selects once, and no other row.
ListsExactly(l, f) ==
    LET wanted == { i \in 1..Len(orders) : f = NoFilter \/ orders[i].status = f }
    IN  /\ Len(l) = Cardinality(wanted)
        /\ { l[k] : k \in 1..Len(l) } = { orders[i] : i \in wanted }

Ascending(l) ==
    \A k, m \in 1..Len(l) :
        k < m => CreationTime(l[k]) <= CreationTime(l[m])

Descending(l) ==
    \A k, m \in 1..Len(l) :
        k < m => CreationTime(l[k]) >= CreationTime(l[m])

\* C18 as stated: list_orders returns every order when no status filter is
\* given and exactly the orders with the given status when one is given, in
\* ascending order of creation time.
C18_ListedAscending ==
    \A f \in StatusInputs \cup {NoFilter} :
        /\ ListsExactly(ListRequest(f), f)
        /\ Ascending(ListRequest(f))

\* C18 (amended): list_orders returns every order when no status filter is
\* given and exactly the orders with the given status when one is given;
\* list_orders of src/main.py in ascending order of creation time,
\* api_staff_orders of src/app.py in descending order, the newest first.
C18_ListedInOrder ==
    \A f \in StatusInputs \cup {NoFilter} :
        /\ ListsExactly(ListRequest(f), f)
        /\ IF program = "api"
           THEN Ascending(ListRequest(f))
           ELSE Descending(ListRequest(f))

\* Three orders created at two or more clock values, two of them in one
\* status and the third in another.
C18_Witness ==
    /\ Len(orders) = 3
    /\ CreationTime(orders[1]) < CreationTime(orders[3])
    /\ orders[1].status = orders[3].status
    /\ orders[2].status # orders[1].status

(***************************************************************************)
(* C20.  The estimated-ready time of place_order (src/app.py).             *)
(***************************************************************************)
ValidRequest(p) ==
    /\ Len(p) > 0
    /\ \A k \in 1..Len(p) : LineExists(p[k]) /\ LineAvailable(p[k])

MaxPrepTime(p) ==
    Max({ menu_items[p[k].item_id].preparation_time : k \in 1..Len(p) })

\* C20 as stated: a valid place_order request succeeds at every minute of
\* the hour and for every maximum preparation time; the order is persisted
\* and its estimated-ready time is the current minute plus the maximum
\* preparation time of its items.
C20_ReadyTimeAtEveryMinute ==
    program = "web" =>
        \A p \in Payloads, minute \in Minutes :
            ValidRequest(p)
            => LET r == place_order(p, LastTime + 1, minute)
               IN  /\ Succeeded(r)
                   /\ Len(r.orders) = Len(orders) + 1
                   /\ r.orders[Len(orders) + 1].estimated_time
                          = minute + MaxPrepTime(p)

(***************************************************************************)
(* C16.  What other requests see of an order being created (SpecTxn).      *)
(* A reader runs against the committed tables of the state it runs in, so  *)
(* what any reader can observe in any interleaving is what get_order and   *)
(* list_orders return in the reachable states.                             *)
(***************************************************************************)
\* An order as a reader gets it, with its lines: there are lines, and the
\* total is the stored form of their sum.
Whole(o) ==
    /\ Len(LinesOf(order_items, o.id)) > 0
    /\ o.total_amount = StoredTotal(LinesSum(order_items, o.id))

\* Every order line belongs to an order a reader can get, and every order a
\* reader gets from get_order or list_orders is whole.
ObservedWhole ==
    /\ \A k \in 1..Len(order_items) :
           order_items[k].order_id \in 1..Len(orders)
    /\ \A i \in 1..Len(orders) :
           /\ OrderRead(i).code = 200
           /\ OrderRead(i).items = LinesOf(order_items, i)
           /\ Whole(OrderRead(i).order)
    /\ \A k \in 1..Len(ListRequest(NoFilter)) :
           Whole(ListRequest(NoFilter)[k])

\* A step that makes an order visible makes it visible with every line of
\* its request; no step changes the lines or the total of a visible order;
\* a request that ends in failure leaves the tables as they were.
CommitsWhole ==
    /\ Len(orders') >= Len(orders)
    /\ \A i \in 1..Len(orders) :
           /\ orders'[i].total_amount = orders[i].total_amount
           /\ LinesOf(order_items', i) = LinesOf(order_items, i)
    /\ Len(orders') > Len(orders) =>
           /\ txn.pc = "flushed"
           /\ Len(orders') = Len(orders) + 1
           /\ LET ls == LinesOf(order_items', Len(orders'))
              IN  /\ Len(ls) = Len(txn.payload)
                  /\ \A k \in 1..Len(ls) :
                         /\ LineItem(ls[k]) = txn.payload[k].item_id
                         /\ ls[k].quantity = txn.payload[k].quantity
    /\ (txn.pc # "idle" /\ txn'.pc = "idle" /\ resp'.code \notin {200, 201})
       => /\ orders' = orders
          /\ order_items' = order_items

\* C16 as stated: in any interleaving of an order request with readers, no
\* reader observes an order that lacks some of its requested lines or whose
\* total differs from the sum of its lines, and a request that fails leaves
\* nothing observable.
C16_NoPartialOrderExact ==
    [][ /\ CommitsWhole
        /\ \A i \in 1..Len(orders') :
               orders'[i].total_amount = LinesSum(order_items', i) ]_vars

\* C16 (amended): in any interleaving of an order request with readers, no
\* reader observes an order that lacks some of its requested lines or whose
\* total differs from the sum of its lines, rounded to two decimals for an
\* order made by create_order, and a request that fails leaves nothing
\* observable.
C16_NoPartialOrder == []ObservedWhole /\ [][CommitsWhole]_vars

\* The second order is in progress, flushed with one of its two lines, while
\* the first order is committed.
C16_Witness ==
    /\ txn.pc = "flushed"
    /\ Len(txn.payload) = 2
    /\ Len(txn.lines) = 1
    /\ txn.order.id = 2
    /\ Len(orders) = 1

(***************************************************************************)
(* C19.  The menu items of an order at its commit (SpecTxn).               *)
(***************************************************************************)
\* The step that makes an order visible leaves it with lines whose menu
\* items are in the catalogue and marked available.
CommitsAvailable ==
    Len(orders') > Len(orders) =>
        LET ls == LinesOf(order_items', Len(orders'))
        IN  \A k \in 1..Len(ls) :
                /\ LineItem(ls[k]) \in DOMAIN menu_items'
                /\ IF program = "api"
                   THEN menu_items'[LineItem(ls[k])].is_available
                   ELSE menu_items'[LineItem(ls[k])].available

\* C19 as stated: every order line refers to a menu item that existed and
\* was marked available when the order was committed, also when a staff
\* update or deletion of the menu item runs between the handler's reading of
\* the catalogue and its commit.
C19_AvailableAtCommit == [][CommitsAvailable]_vars

(***************************************************************************)
(* C21.  The quantity of an order line.                                    *)
(***************************************************************************)
\* Requests with a line of quantity 0 or of a negative quantity.
BadQuantityPayloads ==
    { <<Line(1, 0)>>, <<Line(1, -1)>>, <<Line(1, 1), Line(2, -2)>> }

QuantityRequest(p, minute) ==
    IF program = "api"
    THEN post_orders(p, TokenPool[Len(orders) + 1], LastTime + 1)
    ELSE place_order(p, LastTime + 1, minute)

\* C21 as stated: every persisted order line has a quantity of at least 1
\* and every order total is non-negative; a request with a line of quantity
\* 0 or of a negative quantity persists no order.
C21_QuantityPositive ==
    /\ \A k \in 1..Len(order_items) : order_items[k].quantity >= 1
    /\ \A i \in 1..Len(orders) : orders[i].total_amount >= 0
    /\ \A p \in BadQuantityPayloads, minute \in Minutes :
           LET r == QuantityRequest(p, minute)
           IN  ~Succeeded(r) /\ NothingPersisted(r)

\* C21 for the requests to src/main.py alone.
C21_ApiRejects == program = "api" => C21_QuantityPositive

(***************************************************************************)
(* C22.  What the catalogue update may change (SpecTxn).                   *)
(***************************************************************************)
\* Bodies of a catalogue update request: the fields the handlers know and
\* fields they do not.
UpdateBodies ==
    { [price |-> 1253],
      [available |-> FALSE],
      [is_available |-> FALSE],
      [preparation_time |-> 30],
      [name |-> "Renamed"],
      [available |-> FALSE, is_available |-> FALSE, price |-> 1253,
       preparation_time |-> 30, name |-> "Renamed", category |-> "Other",
       id |-> 2] }

MenuUpdateRequest(item_id, data) ==
    IF program = "api"
    THEN put_menu(item_id, data)
    ELSE staff_update_menu_item(item_id, data)

\* The columns of a menu item a catalogue update may write.
Adjustable == {"price", "available", "is_available", "preparation_time"}

\* C22: after any update_menu_item call the menu items are the same ids,
\* the item addressed differs from before in its availability, price and
\* preparation time at most (same name, same category), and no other menu
\* item, no order and no order line is changed.
C22_UpdateTouchesThreeFields ==
    \A item_id \in ItemIds \cup {3}, data \in UpdateBodies :
        LET r == MenuUpdateRequest(item_id, data)
        IN  /\ r.orders = orders
            /\ r.order_items = order_items
            /\ DOMAIN r.menu_items = DOMAIN menu_items
            /\ \A i \in DOMAIN menu_items :
                   /\ DOMAIN r.menu_items[i] = DOMAIN menu_items[i]
                   /\ \A f \in DOMAIN menu_items[i] :
                          (i # item_id \/ f \notin Adjustable)
                          => r.menu_items[i][f] = menu_items[i][f]

\* A catalogue update has just succeeded and left an item unavailable, with
\* two items on the menu and an order in the store.
C22_Witness ==
    /\ resp.op \in {"update_menu_item", "staff_update_menu_item"}
    /\ resp.code = 200
    /\ Cardinality(DOMAIN menu_items) = 2
    /\ \E i \in DOMAIN menu_items : ~LineAvailable([item_id |-> i])
    /\ Len(orders) >= 1

(***************************************************************************)
(* C23.  The queue positions when a new order is placed (src/main.py).     *)
(***************************************************************************)
\* A step of create_order that stores a new order leaves every order that
\* existed with the answer get_status gave for it: found, and at the same
\* queue position.
PositionsKept ==
    (program = "api" /\ Len(orders') = Len(orders) + 1)
    => \A i \in 1..Len(orders) :
           LET before == status_by_token(orders[i].token)
               after == status_by_token(orders[i].token)'
           IN  /\ before.code = 200
               /\ after.code = 200
               /\ after.queue_position = before.queue_position

\* C23 as stated: placing a new order never changes the queue position that
\* get_status reports for an order that already exists, also when the new
\* order gets the creation time of an existing one.
C23_PositionsStable == [][PositionsKept]_vars

\* The same for the steps between states with distinct tokens and distinct
\* insertion times.
C23_IfTokensAndTimesDistinct ==
    [][ (program = "api" /\ C10_TokensUnique' /\ TimesDistinct')
        => PositionsKept ]_vars

====
